---- MODULE Spec2Model ----
(***************************************************************************)
(* A model of rouge/rouge.py: the ROUGE-N, ROUGE-L and ROUGE-W scorers.    *)
(*                                                                         *)
(* One behaviour is one call of a scorer.  Init draws the call (the        *)
(* function and its arguments) from bounded sets; the actions execute the  *)
(* body of the called function, one action per function body or per loop  *)
(* iteration, until the call has returned or raised.                       *)
(*                                                                         *)
(* Numbers.  Python floats are modelled exactly: a number is a record      *)
(* [num, den, root] that denotes (num/den)^(1/root), with num/den in       *)
(* lowest terms and den > 0; root = 1 is a rational.  Weight powers are    *)
(* integers, so that k^p is an integer and the inverse weighting is a      *)
(* p-th root, kept in closed form.  Sums and quotients of irrational       *)
(* roots are kept as expression records [op, l, r].  The rounding of       *)
(* IEEE-754 doubles is not modelled.                                       *)
(*                                                                         *)
(* Exceptions.  An operator that models a function which can raise         *)
(* returns either its value or a record [exc, msg]; the action that runs   *)
(* it moves to pc = "raised" with that record as the result.               *)
(***************************************************************************)
EXTENDS Integers, Sequences, FiniteSets, TLC

VARIABLES
    call,            \* the call under execution: [fn, args], never changed
    pc,              \* the function body (or loop) about to run, or "returned" / "raised"
    args,            \* the arguments of the function at pc
    locals,          \* the local variables of the scorer's body
    result,          \* None while running; the returned value or the raised exception
    ngrams_counted,  \* history: n-grams tallied into Counters so far
    dp_cells,        \* history: cells of LCS / weighted-LCS tables computed so far
    credited,        \* history: per token, credits given by rouge_l_summary_level
    visited          \* history: the <<reference position, word>> pairs in the order
                     \* "for word in lcs_union" has visited them

vars == <<call, pc, args, locals, result, ngrams_counted, dp_cells, credited, visited>>

---------------------------------------------------------------------------
(* Bounds of the model.                                                    *)

\* The most tokens a sentence-level call is given, summary and reference
\* together, and the most tokens of one sentence.
MaxLen == 4

\* The most tokens a summary-level call is given, summary and references
\* together.
MaxTextLen == 5

\* The largest n of a ROUGE-N call.
MaxN == 2

\* The largest weight power of a ROUGE-W call.
MaxWeight == 3

\* alpha is drawn from the multiples of 1/AlphaDen.
AlphaDen == 2

---------------------------------------------------------------------------
(* Values.                                                                 *)

None == [none |-> TRUE]

IsExc(v) == "exc" \in DOMAIN v

ValueError(m) == [exc |-> "ValueError", msg |-> m]

ZeroDivisionError == [exc |-> "ZeroDivisionError", msg |-> "division by zero"]

Min(a, b) == IF a <= b THEN a ELSE b

Max(a, b) == IF a >= b THEN a ELSE b

Abs(a) == IF a < 0 THEN -a ELSE a

RECURSIVE GCD(_, _)
GCD(a, b) == IF b = 0 THEN a ELSE GCD(b, a % b)

RECURSIVE Pow(_, _)
Pow(b, e) == IF e = 0 THEN 1 ELSE b * Pow(b, e - 1)

\* b^e, or cap + 1 as soon as it exceeds cap (no overflow for b <= cap).
RECURSIVE PowCap(_, _, _)
PowCap(b, e, cap) ==
    IF e = 0 THEN 1
    ELSE LET r == PowCap(b, e - 1, cap)
         IN  IF r > cap THEN cap + 1 ELSE Min(r * b, cap + 1)

\* The rational n/d (d # 0) in lowest terms.
Rat(n, d) ==
    LET g == GCD(Abs(n), Abs(d))
        s == IF d < 0 THEN -1 ELSE 1
    IN  [num |-> (s * n) \div g, den |-> (s * d) \div g, root |-> 1]

Num(k) == Rat(k, 1)

Zero == Num(0)

One == Num(1)

IsExpr(x) == "op" \in DOMAIN x

IsRat(x) == ~IsExpr(x) /\ x.root = 1

\* k with k^p = n when n is a perfect p-th power, else -1.
IRoot(n, p) ==
    LET ks == {k \in 0..n : PowCap(k, p, n) = n}
    IN  IF ks = {} THEN -1 ELSE CHOOSE k \in ks : TRUE

\* (n/d)^(1/p) for n/d >= 0, as a rational when it is one.
Root(n, d, p) ==
    LET q == Rat(n, d)
        rn == IRoot(q.num, p)
        rd == IRoot(q.den, p)
    IN  IF p = 1 \/ q.num = 0 THEN q
        ELSE IF rn >= 0 /\ rd >= 0 THEN Rat(rn, rd)
        ELSE [num |-> q.num, den |-> q.den, root |-> p]

\* Order and arithmetic.  Leq compares rationals; Mul, Add, Div take the
\* non-negative numbers of a score computation.
Leq(x, y) == x.num * y.den <= y.num * x.den

Sub(x, y) == Rat(x.num * y.den - y.num * x.den, x.den * y.den)

Mul(x, y) ==
    IF x = Zero \/ y = Zero THEN Zero
    ELSE IF IsExpr(x) \/ IsExpr(y) THEN [op |-> "*", l |-> x, r |-> y]
    ELSE IF x.root = y.root THEN Root(x.num * y.num, x.den * y.den, x.root)
    ELSE IF x.root = 1 THEN Root(Pow(x.num, y.root) * y.num, Pow(x.den, y.root) * y.den, y.root)
    ELSE IF y.root = 1 THEN Root(Pow(y.num, x.root) * x.num, Pow(y.den, x.root) * x.den, x.root)
    ELSE [op |-> "*", l |-> x, r |-> y]

Add(x, y) ==
    IF x = Zero THEN y
    ELSE IF y = Zero THEN x
    ELSE IF IsRat(x) /\ IsRat(y) THEN Rat(x.num * y.den + y.num * x.den, x.den * y.den)
    ELSE [op |-> "+", l |-> x, r |-> y]

\* Python's x / y.
Divide(x, y) ==
    IF y = Zero THEN ZeroDivisionError
    ELSE IF x = Zero THEN Zero
    ELSE IF IsExpr(x) \/ IsExpr(y) THEN [op |-> "/", l |-> x, r |-> y]
    ELSE IF x.root = y.root THEN Root(x.num * y.den, x.den * y.num, x.root)
    ELSE [op |-> "/", l |-> x, r |-> y]

Range(s) == {s[i] : i \in DOMAIN s}

RECURSIVE SumOver(_, _)
SumOver(f, S) ==
    IF S = {} THEN 0
    ELSE LET k == CHOOSE k \in S : TRUE IN f[k] + SumOver(f, S \ {k})

\* sum(counter.values())
SumValues(c) == SumOver(c, DOMAIN c)

---------------------------------------------------------------------------
(* N-gram statistics.                                                      *)

_num_ngrams(words, n) == Max(Len(words) - n + 1, 0)

\* The n-grams of words, in order (the generator's output as a sequence).
_get_ngram(words, n) ==
    [i \in 1.._num_ngrams(words, n) |-> SubSeq(words, i, i + n - 1)]

\* collections.Counter(iterable): each item present mapped to its count.
Counter(items) ==
    [g \in Range(items) |-> Cardinality({i \in DOMAIN items : items[i] = g})]

_count_ngrams(words, n) == Counter(_get_ngram(words, n))

\* Counter & Counter: the minimum of the counts, positive counts only.
CounterAnd(a, b) ==
    [g \in {k \in DOMAIN a \cap DOMAIN b : Min(a[k], b[k]) > 0} |-> Min(a[g], b[g])]

\* A plausible slip: the counts are added where they should be clipped.
_clipped_ngram_count_sum(summary_ngrams, reference_ngrams) ==
    SumOver([g \in DOMAIN summary_ngrams \cap DOMAIN reference_ngrams |->
                 summary_ngrams[g] + reference_ngrams[g]],
            DOMAIN summary_ngrams \cap DOMAIN reference_ngrams)

_clipped_ngram_count(summary_ngrams, reference_ngrams) ==
    SumValues(CounterAnd(summary_ngrams, reference_ngrams))

RECURSIVE _flatten_sentences(_)
_flatten_sentences(sentences) ==
    IF sentences = <<>> THEN <<>>
    ELSE Head(sentences) \o _flatten_sentences(Tail(sentences))

_flatten_and_count_ngrams(sentences, n) ==
    _count_ngrams(_flatten_sentences(sentences), n)

---------------------------------------------------------------------------
(* Score combinator.                                                       *)

\* A plausible slip: the guard on a zero denominator is missing.
_divide_or_zero_unguarded(numerator, denominator) ==
    Divide(numerator, denominator)

_divide_or_zero(numerator, denominator) ==
    IF denominator = Zero THEN Zero ELSE Divide(numerator, denominator)

Half == Rat(1, 2)

_compute_f1_measure(recall, precision, alpha) ==
    LET a == IF alpha = None THEN Half ELSE alpha
    IN  IF ~(Leq(Zero, a) /\ Leq(a, One))
        THEN ValueError("alpha must be between [0, 1]")
        ELSE _divide_or_zero(Mul(precision, recall),
                             Add(Mul(Sub(One, a), precision), Mul(a, recall)))

_f1_measure(numerator, r_denominator, p_denominator, alpha) ==
    LET recall == _divide_or_zero(Num(numerator), Num(r_denominator))
        precision == _divide_or_zero(Num(numerator), Num(p_denominator))
    IN  IF IsExc(recall) THEN recall
        ELSE IF IsExc(precision) THEN precision
        ELSE LET f1 == _compute_f1_measure(recall, precision, alpha)
             IN  IF IsExc(f1) THEN f1
                 ELSE [recall |-> recall, precision |-> precision, f1 |-> f1]

---------------------------------------------------------------------------
(* LCS engine.  Tables are functions on the cells <<i, j>> computed so     *)
(* far; the loops "for i in range(n + 1): for j in range(m + 1)" visit     *)
(* the cells in row-major order.  Table indices are the code's; x[i - 1]   *)
(* of the code is x[i] of a 1-based TLA+ sequence.                         *)

\* The k-th cell (k = 0, 1, ...) visited by the nested loops, m + 1 columns.
LoopCell(k, m) == <<k \div (m + 1), k % (m + 1)>>

\* A plausible slip: min for max at a mismatch.
LenCellMin(x, y, len_table, i, j) ==
    IF i = 0 \/ j = 0 THEN 0
    ELSE IF x[i] = y[j] THEN len_table[<<i - 1, j - 1>>] + 1
    ELSE Min(len_table[<<i - 1, j>>], len_table[<<i, j - 1>>])

\* The body of the loops of _lcs_length's _compute_lcs_table: len_table[i, j].
LenCell(x, y, len_table, i, j) ==
    IF i = 0 \/ j = 0 THEN 0
    ELSE IF x[i] = y[j] THEN len_table[<<i - 1, j - 1>>] + 1
    ELSE Max(len_table[<<i - 1, j>>], len_table[<<i, j - 1>>])

\* The nested loops, from the table of the cells visited so far.
RECURSIVE LenLoop(_, _, _)
LenLoop(x, y, len_table) ==
    LET k == Cardinality(DOMAIN len_table)
    IN  IF k = (Len(x) + 1) * (Len(y) + 1) THEN len_table
        ELSE LET c == LoopCell(k, Len(y))
             IN  LenLoop(x, y, len_table @@ (c :> LenCell(x, y, len_table, c[1], c[2])))

_lcs_length(x, y) == LenLoop(x, y, <<>>)[<<Len(x), Len(y)>>]

\* A plausible slip: >= for >, which takes the up branch on ties.
TraceCellUpOnTies(x, y, t, i, j) ==
    LET L == t.len_table
        T == t.trace_table
        c == <<i, j>>
    IN  IF i = 0 \/ j = 0
        THEN [len_table |-> L @@ (c :> 0), trace_table |-> T]
        ELSE IF x[i] = y[j]
        THEN [len_table |-> L @@ (c :> L[<<i - 1, j - 1>>] + 1), trace_table |-> T @@ (c :> "d")]
        ELSE IF L[<<i - 1, j>>] >= L[<<i, j - 1>>]
        THEN [len_table |-> L @@ (c :> L[<<i - 1, j>>]), trace_table |-> T @@ (c :> "u")]
        ELSE [len_table |-> L @@ (c :> L[<<i, j - 1>>]), trace_table |-> T @@ (c :> "l")]

\* The body of the loops of _lcs_elements' _compute_lcs_table: the two
\* tables t = [len_table, trace_table] with cell <<i, j>> filled in.
TraceCell(x, y, t, i, j) ==
    LET L == t.len_table
        T == t.trace_table
        c == <<i, j>>
    IN  IF i = 0 \/ j = 0
        THEN [len_table |-> L @@ (c :> 0), trace_table |-> T]
        ELSE IF x[i] = y[j]
        THEN [len_table |-> L @@ (c :> L[<<i - 1, j - 1>>] + 1), trace_table |-> T @@ (c :> "d")]
        ELSE IF L[<<i - 1, j>>] > L[<<i, j - 1>>]
        THEN [len_table |-> L @@ (c :> L[<<i - 1, j>>]), trace_table |-> T @@ (c :> "u")]
        ELSE [len_table |-> L @@ (c :> L[<<i, j - 1>>]), trace_table |-> T @@ (c :> "l")]

\* The nested loops, from the tables of the cells visited so far.
RECURSIVE TraceLoop(_, _, _)
TraceLoop(x, y, t) ==
    LET k == Cardinality(DOMAIN t.len_table)
    IN  IF k = (Len(x) + 1) * (Len(y) + 1) THEN t
        ELSE LET c == LoopCell(k, Len(y))
             IN  TraceLoop(x, y, TraceCell(x, y, t, c[1], c[2]))

\* Both tables; the code returns trace_table only.
_compute_lcs_table(x, y) ==
    TraceLoop(x, y, [len_table |-> <<>>, trace_table |-> <<>>])

\* A plausible slip: the up branch steps left.
BacktraceStepUpGoesLeft(table, st) ==
    IF table[<<st.i, st.j>>] = "d"
    THEN [i |-> st.i - 1, j |-> st.j - 1,
          elements |-> st.elements \cup {<<st.i - 1, st.j - 1>>}]
    ELSE [i |-> st.i, j |-> st.j - 1, elements |-> st.elements]

\* One iteration of _lcs_elements' while loop on st = [i, j, elements].
BacktraceStep(table, st) ==
    IF table[<<st.i, st.j>>] = "d"
    THEN [i |-> st.i - 1, j |-> st.j - 1,
          elements |-> st.elements \cup {<<st.i - 1, st.j - 1>>}]
    ELSE IF table[<<st.i, st.j>>] = "u"
    THEN [i |-> st.i - 1, j |-> st.j, elements |-> st.elements]
    ELSE [i |-> st.i, j |-> st.j - 1, elements |-> st.elements]

RECURSIVE Backtrace(_, _)
Backtrace(table, st) ==
    IF st.i # 0 /\ st.j # 0 THEN Backtrace(table, BacktraceStep(table, st))
    ELSE st.elements

_lcs_elements(x, y) ==
    Backtrace(_compute_lcs_table(x, y).trace_table,
              [i |-> Len(x), j |-> Len(y), elements |-> {}])

_make_lcs_union(summary_sentences, reference_sentence) ==
    UNION {{e[2] : e \in _lcs_elements(summary_sentences[s], reference_sentence)} :
           s \in DOMAIN summary_sentences}

---------------------------------------------------------------------------
(* Weighted LCS engine.                                                    *)

\* _weight_fn(x, weight, inverse) for an integer weight.
_weight_fn(x, weight, inverse) ==
    IF ~(weight > 1) THEN ValueError("weight must be > 1.0")
    ELSE IF inverse THEN Root(x.num, x.den, weight)
    ELSE Rat(Pow(x.num, weight), Pow(x.den, weight))

MaxNum(a, b) == IF Leq(b, a) THEN a ELSE b

\* A plausible slip: a match adds the weight of the run, not its increase.
WeightedCellAbsolute(x, y, weight, t, i, j) ==
    LET W == t.weighted_len
        C == t.consecutive_match
        c == <<i, j>>
    IN  IF i = 0 \/ j = 0
        THEN [weighted_len |-> W @@ (c :> Zero), consecutive_match |-> C @@ (c :> 0)]
        ELSE IF x[i] = y[j]
        THEN LET k == C[<<i - 1, j - 1>>]
                 w1 == _weight_fn(Num(k + 1), weight, FALSE)
             IN  IF IsExc(w1) THEN w1
                 ELSE [weighted_len |-> W @@ (c :> Add(W[<<i - 1, j - 1>>], w1)),
                       consecutive_match |-> C @@ (c :> k + 1)]
        ELSE [weighted_len |-> W @@ (c :> MaxNum(W[<<i - 1, j>>], W[<<i, j - 1>>])),
              consecutive_match |-> C @@ (c :> 0)]

\* A plausible slip: the weight is validated on entry to every cell, so
\* that an invalid weight is rejected at the first cell of the table.
WeightedCellValidatesFirst(x, y, weight, t, i, j) ==
    LET W == t.weighted_len
        C == t.consecutive_match
        c == <<i, j>>
        v == _weight_fn(Zero, weight, FALSE)
    IN  IF IsExc(v) THEN v
        ELSE IF i = 0 \/ j = 0
        THEN [weighted_len |-> W @@ (c :> Zero), consecutive_match |-> C @@ (c :> 0)]
        ELSE IF x[i] = y[j]
        THEN LET k == C[<<i - 1, j - 1>>]
                 w1 == _weight_fn(Num(k + 1), weight, FALSE)
                 w0 == _weight_fn(Num(k), weight, FALSE)
             IN  [weighted_len |-> W @@ (c :> Add(W[<<i - 1, j - 1>>], Sub(w1, w0))),
                  consecutive_match |-> C @@ (c :> k + 1)]
        ELSE [weighted_len |-> W @@ (c :> MaxNum(W[<<i - 1, j>>], W[<<i, j - 1>>])),
              consecutive_match |-> C @@ (c :> 0)]

\* The body of the loops of _lcs_length_with_weight: the two tables
\* t = [weighted_len, consecutive_match] with cell <<i, j>> filled in, or
\* the exception _weight_fn raises.
WeightedCell(x, y, weight, t, i, j) ==
    LET W == t.weighted_len
        C == t.consecutive_match
        c == <<i, j>>
    IN  IF i = 0 \/ j = 0
        THEN [weighted_len |-> W @@ (c :> Zero), consecutive_match |-> C @@ (c :> 0)]
        ELSE IF x[i] = y[j]
        THEN LET k == C[<<i - 1, j - 1>>]
                 w1 == _weight_fn(Num(k + 1), weight, FALSE)
                 w0 == _weight_fn(Num(k), weight, FALSE)
             IN  IF IsExc(w1) THEN w1
                 ELSE IF IsExc(w0) THEN w0
                 ELSE [weighted_len |-> W @@ (c :> Add(W[<<i - 1, j - 1>>], Sub(w1, w0))),
                       consecutive_match |-> C @@ (c :> k + 1)]
        ELSE [weighted_len |-> W @@ (c :> MaxNum(W[<<i - 1, j>>], W[<<i, j - 1>>])),
              consecutive_match |-> C @@ (c :> 0)]

\* compute(n, d), the local function of rouge_w_sentence_level.
compute(n, d, weight) ==
    LET wd == _weight_fn(Num(d), weight, FALSE)
    IN  IF IsExc(wd) THEN wd
        ELSE LET q == _divide_or_zero(n, wd)
             IN  IF IsExc(q) THEN q ELSE _weight_fn(q, weight, TRUE)

\* Lines 482-485 of rouge_w_sentence_level, after the weighted LCS.
rouge_w_score(numerator, summary_sentence, reference_sentence, weight, alpha) ==
    LET recall == compute(numerator, Len(reference_sentence), weight)
    IN  IF IsExc(recall) THEN recall
        ELSE LET precision == compute(numerator, Len(summary_sentence), weight)
             IN  IF IsExc(precision) THEN precision
                 ELSE LET f1 == _compute_f1_measure(recall, precision, alpha)
                      IN  IF IsExc(f1) THEN f1
                          ELSE [recall |-> recall, precision |-> precision, f1 |-> f1]

---------------------------------------------------------------------------
(* The calls.                                                              *)

\* The tokens of example.py; the first two of them make the small inputs.
Vocabulary == <<"the", "police", "killed", "gunman">>

Tokens == {Vocabulary[1], Vocabulary[2]}

SeqsUpTo(S, n) == UNION {[1..k -> S] : k \in 0..n}

Sentences == SeqsUpTo(Tokens, MaxLen)

TotalLen(sentences) == Len(_flatten_sentences(sentences))

\* A multi-sentence text: no, one or two sentences, empty sentences included.
Texts == {t \in SeqsUpTo(Sentences, 2) : TotalLen(t) <= MaxTextLen}

\* The sentence pair of example.py.
reference_sentence == <<"the", "police", "killed", "the", "gunman">>

summary_sentence == <<"the", "gunman", "police", "killed">>

\* The sentence-level inputs: every small pair, and the sentences of
\* example.py against each other and against themselves.
SentencePairs ==
    {p \in Sentences \X Sentences : Len(p[1]) + Len(p[2]) <= MaxLen}
    \cup ({summary_sentence, reference_sentence} \X {summary_sentence, reference_sentence})

\* The summary-level inputs.
TextPairs == {p \in Texts \X Texts : TotalLen(p[1]) + TotalLen(p[2]) <= MaxTextLen}

Alphas == {None} \cup {Rat(k, AlphaDen) : k \in -1..(AlphaDen + 1)}

Weights == 1..MaxWeight

Ns == 1..MaxN

\* The calls of a scorer fn with arguments from the bounded sets.
SentenceLevelArgs ==
    {[summary_sentence |-> p[1], reference_sentence |-> p[2]] : p \in SentencePairs}

SummaryLevelArgs ==
    {[summary_sentences |-> p[1], reference_sentences |-> p[2]] : p \in TextPairs}

Init ==
    /\ \/ \E t \in SentenceLevelArgs, n \in Ns, a \in Alphas :
            call = [fn |-> "rouge_n_sentence_level",
                    args |-> [summary_sentence |-> t.summary_sentence,
                              reference_sentence |-> t.reference_sentence,
                              n |-> n, alpha |-> a]]
       \/ \E t \in SentenceLevelArgs, a \in Alphas :
            call = [fn |-> "rouge_l_sentence_level",
                    args |-> [summary_sentence |-> t.summary_sentence,
                              reference_sentence |-> t.reference_sentence,
                              alpha |-> a]]
       \/ \E t \in SentenceLevelArgs, w \in Weights, a \in Alphas :
            call = [fn |-> "rouge_w_sentence_level",
                    args |-> [summary_sentence |-> t.summary_sentence,
                              reference_sentence |-> t.reference_sentence,
                              weight |-> w, alpha |-> a]]
       \/ \E t \in SummaryLevelArgs, n \in Ns, a \in Alphas :
            call = [fn |-> "rouge_n_summary_level",
                    args |-> [summary_sentences |-> t.summary_sentences,
                              reference_sentences |-> t.reference_sentences,
                              n |-> n, alpha |-> a]]
       \/ \E t \in SummaryLevelArgs, a \in Alphas :
            call = [fn |-> "rouge_l_summary_level",
                    args |-> [summary_sentences |-> t.summary_sentences,
                              reference_sentences |-> t.reference_sentences,
                              alpha |-> a]]
       \/ \E t \in SummaryLevelArgs, w \in Weights, a \in Alphas :
            call = [fn |-> "rouge_w_summary_level",
                    args |-> [summary_sentences |-> t.summary_sentences,
                              reference_sentences |-> t.reference_sentences,
                              weight |-> w, alpha |-> a]]
       \/ \E t \in SentenceLevelArgs :
            call = [fn |-> "_lcs_elements",
                    args |-> [x |-> t.summary_sentence, y |-> t.reference_sentence]]
    /\ pc = call.fn
    /\ args = call.args
    /\ locals = <<>>
    /\ result = None
    /\ ngrams_counted = 0
    /\ dp_cells = 0
    /\ credited = [t \in Range(Vocabulary) |-> 0]
    /\ visited = <<>>

\* return res, or raise it when it is an exception.
Finish(res) ==
    /\ result' = res
    /\ pc' = IF IsExc(res) THEN "raised" ELSE "returned"

---------------------------------------------------------------------------
(* ROUGE-N.                                                                *)

RougeNSentenceLevel ==
    /\ pc = "rouge_n_sentence_level"
    /\ LET summary_ngrams == _count_ngrams(args.summary_sentence, args.n)
           reference_ngrams == _count_ngrams(args.reference_sentence, args.n)
           total_matches == _clipped_ngram_count(summary_ngrams, reference_ngrams)
           recall_denominator == _num_ngrams(args.reference_sentence, args.n)
           precision_denominator == _num_ngrams(args.summary_sentence, args.n)
       IN  /\ locals' = [summary_ngrams |-> summary_ngrams,
                         reference_ngrams |-> reference_ngrams,
                         total_matches |-> total_matches,
                         recall_denominator |-> recall_denominator,
                         precision_denominator |-> precision_denominator]
           /\ args' = [numerator |-> total_matches,
                       r_denominator |-> recall_denominator,
                       p_denominator |-> precision_denominator,
                       alpha |-> args.alpha]
           /\ ngrams_counted' = ngrams_counted + SumValues(summary_ngrams)
                                               + SumValues(reference_ngrams)
    /\ pc' = "_f1_measure"
    /\ UNCHANGED <<call, result, dp_cells, credited, visited>>

RougeNSummaryLevel ==
    /\ pc = "rouge_n_summary_level"
    /\ args' = [summary_sentence |-> _flatten_sentences(args.summary_sentences),
                reference_sentence |-> _flatten_sentences(args.reference_sentences),
                n |-> args.n,
                alpha |-> args.alpha]
    /\ pc' = "rouge_n_sentence_level"
    /\ UNCHANGED <<call, locals, result, ngrams_counted, dp_cells, credited, visited>>

\* _f1_measure, the tail call of the ROUGE-N and ROUGE-L scorers.
F1Measure ==
    /\ pc = "_f1_measure"
    /\ Finish(_f1_measure(args.numerator, args.r_denominator, args.p_denominator, args.alpha))
    /\ UNCHANGED <<call, args, locals, ngrams_counted, dp_cells, credited, visited>>

---------------------------------------------------------------------------
(* ROUGE-L.                                                                *)

TableCells(x, y) == (Len(x) + 1) * (Len(y) + 1)

RougeLSentenceLevel ==
    /\ pc = "rouge_l_sentence_level"
    /\ LET lcs_length == _lcs_length(args.summary_sentence, args.reference_sentence)
           r_denominator == Len(args.reference_sentence)
           p_denominator == Len(args.summary_sentence)
       IN  /\ locals' = [lcs_length |-> lcs_length,
                         r_denominator |-> r_denominator,
                         p_denominator |-> p_denominator]
           /\ args' = [numerator |-> lcs_length,
                       r_denominator |-> r_denominator,
                       p_denominator |-> p_denominator,
                       alpha |-> args.alpha]
    /\ dp_cells' = dp_cells + TableCells(args.summary_sentence, args.reference_sentence)
    /\ pc' = "_f1_measure"
    /\ UNCHANGED <<call, result, ngrams_counted, credited, visited>>

\* _lcs_elements up to its while loop: the trace table and i, j, elements.
LcsElementsTable ==
    /\ pc = "_lcs_elements"
    /\ locals' = [i |-> Len(args.x), j |-> Len(args.y), elements |-> {},
                  table |-> _compute_lcs_table(args.x, args.y).trace_table]
    /\ dp_cells' = dp_cells + TableCells(args.x, args.y)
    /\ pc' = "_lcs_elements:while"
    /\ UNCHANGED <<call, args, result, ngrams_counted, credited, visited>>

\* One iteration of the while loop.
LcsElementsBacktrace ==
    /\ pc = "_lcs_elements:while"
    /\ locals.i # 0 /\ locals.j # 0
    /\ LET st == BacktraceStep(locals.table,
                               [i |-> locals.i, j |-> locals.j, elements |-> locals.elements])
       IN  locals' = [locals EXCEPT !.i = st.i, !.j = st.j, !.elements = st.elements]
    /\ UNCHANGED <<call, pc, args, result, ngrams_counted, dp_cells, credited, visited>>

LcsElementsReturn ==
    /\ pc = "_lcs_elements:while"
    /\ ~(locals.i # 0 /\ locals.j # 0)
    /\ result' = locals.elements
    /\ pc' = "returned"
    /\ UNCHANGED <<call, args, locals, ngrams_counted, dp_cells, credited, visited>>

\* A plausible slip: the remaining count of the summary is not tested.
CreditableUnchecked(summary_unigrams, reference_unigrams, unigram) ==
    /\ unigram \in DOMAIN summary_unigrams
    /\ unigram \in DOMAIN reference_unigrams
    /\ reference_unigrams[unigram] > 0

\* A plausible slip: the summary's counts are tested all together, so a
\* word is refused once any token of the summary is used up.
CreditableWhileNoneUsedUp(summary_unigrams, reference_unigrams, unigram) ==
    /\ unigram \in DOMAIN summary_unigrams
    /\ unigram \in DOMAIN reference_unigrams
    /\ \A u \in DOMAIN summary_unigrams : summary_unigrams[u] > 0
    /\ reference_unigrams[unigram] > 0

\* The condition of lines 410-411.
Creditable(summary_unigrams, reference_unigrams, unigram) ==
    /\ unigram \in DOMAIN summary_unigrams
    /\ unigram \in DOMAIN reference_unigrams
    /\ summary_unigrams[unigram] > 0
    /\ reference_unigrams[unigram] > 0

\* rouge_l_summary_level up to its loop over the reference sentences.
RougeLSummaryLevel ==
    /\ pc = "rouge_l_summary_level"
    /\ LET summary_unigrams == _flatten_and_count_ngrams(args.summary_sentences, 1)
           reference_unigrams == _flatten_and_count_ngrams(args.reference_sentences, 1)
       IN  /\ locals' = [summary_unigrams |-> summary_unigrams,
                         reference_unigrams |-> reference_unigrams,
                         total_lcs_words |-> 0,
                         reference |-> 1,
                         lcs_union |-> {},
                         unvisited |-> {}]
           /\ ngrams_counted' = ngrams_counted + SumValues(summary_unigrams)
                                               + SumValues(reference_unigrams)
    /\ pc' = "rouge_l_summary_level:for reference"
    /\ UNCHANGED <<call, args, result, dp_cells, credited, visited>>

\* The next reference sentence (locals.reference is its position) and its
\* LCS union; an empty union ends the iteration at once.
LSummaryReference ==
    /\ pc = "rouge_l_summary_level:for reference"
    /\ locals.reference <= Len(args.reference_sentences)
    /\ LET reference == args.reference_sentences[locals.reference]
           lcs_union == _make_lcs_union(args.summary_sentences, reference)
       IN  /\ locals' = [locals EXCEPT !.lcs_union = lcs_union,
                                       !.unvisited = lcs_union,
                                       !.reference = IF lcs_union = {} THEN @ + 1 ELSE @]
           /\ pc' = IF lcs_union = {} THEN pc ELSE "rouge_l_summary_level:for word"
           /\ dp_cells' = dp_cells
                  + SumOver([s \in DOMAIN args.summary_sentences |->
                                 TableCells(args.summary_sentences[s], reference)],
                            DOMAIN args.summary_sentences)
    /\ UNCHANGED <<call, args, result, ngrams_counted, credited, visited>>

\* One iteration of "for word in lcs_union".  A set is iterated in no
\* specified order: any index not yet visited may come next.  The last
\* index of the union ends the iteration of the outer loop.
LSummaryWord ==
    /\ pc = "rouge_l_summary_level:for word"
    /\ \E word \in locals.unvisited :
         LET reference == args.reference_sentences[locals.reference]
             unigram == <<reference[word + 1]>>
             hit == Creditable(locals.summary_unigrams, locals.reference_unigrams, unigram)
             rest == locals.unvisited \ {word}
         IN  /\ locals' = [locals EXCEPT
                    !.summary_unigrams = IF hit THEN [@ EXCEPT ![unigram] = @ - 1] ELSE @,
                    !.reference_unigrams = IF hit THEN [@ EXCEPT ![unigram] = @ - 1] ELSE @,
                    !.total_lcs_words = IF hit THEN @ + 1 ELSE @,
                    !.unvisited = rest,
                    !.reference = IF rest = {} THEN @ + 1 ELSE @]
             /\ credited' = IF hit THEN [credited EXCEPT ![unigram[1]] = @ + 1] ELSE credited
             /\ visited' = Append(visited, <<locals.reference, word>>)
             /\ pc' = IF rest = {} THEN "rouge_l_summary_level:for reference" ELSE pc
    /\ UNCHANGED <<call, args, result, ngrams_counted, dp_cells>>

\* After the loop: the denominators and the tail call of _f1_measure.
LSummaryReturn ==
    /\ pc = "rouge_l_summary_level:for reference"
    /\ locals.reference > Len(args.reference_sentences)
    /\ args' = [numerator |-> locals.total_lcs_words,
                r_denominator |-> TotalLen(args.reference_sentences),
                p_denominator |-> TotalLen(args.summary_sentences),
                alpha |-> args.alpha]
    /\ pc' = "_f1_measure"
    /\ UNCHANGED <<call, locals, result, ngrams_counted, dp_cells, credited, visited>>

---------------------------------------------------------------------------
(* ROUGE-W.                                                                *)

\* rouge_w_sentence_level enters _lcs_length_with_weight; locals.i, locals.j
\* are the loop variables.
RougeWSentenceLevel ==
    /\ pc = "rouge_w_sentence_level"
    /\ locals' = [weighted_len |-> <<>>, consecutive_match |-> <<>>, i |-> 0, j |-> 0]
    /\ pc' = "_lcs_length_with_weight"
    /\ UNCHANGED <<call, args, result, ngrams_counted, dp_cells, credited, visited>>

\* One iteration of the inner loop of _lcs_length_with_weight.
WeightedLcsCell ==
    /\ pc = "_lcs_length_with_weight"
    /\ locals.i <= Len(args.summary_sentence)
    /\ LET t == WeightedCell(args.summary_sentence, args.reference_sentence, args.weight,
                             [weighted_len |-> locals.weighted_len,
                              consecutive_match |-> locals.consecutive_match],
                             locals.i, locals.j)
           last == locals.j = Len(args.reference_sentence)
       IN  IF IsExc(t)
           THEN /\ Finish(t)
                /\ UNCHANGED <<locals, dp_cells>>
           ELSE /\ locals' = [weighted_len |-> t.weighted_len,
                              consecutive_match |-> t.consecutive_match,
                              i |-> IF last THEN locals.i + 1 ELSE locals.i,
                              j |-> IF last THEN 0 ELSE locals.j + 1]
                /\ dp_cells' = dp_cells + 1
                /\ UNCHANGED <<pc, result>>
    /\ UNCHANGED <<call, args, ngrams_counted, credited, visited>>

\* The weighted LCS is returned and rouge_w_sentence_level finishes.
RougeWSentenceScore ==
    /\ pc = "_lcs_length_with_weight"
    /\ locals.i > Len(args.summary_sentence)
    /\ LET numerator == locals.weighted_len[<<Len(args.summary_sentence),
                                              Len(args.reference_sentence)>>]
       IN  /\ locals' = [weighted_len |-> locals.weighted_len,
                         consecutive_match |-> locals.consecutive_match,
                         i |-> locals.i, j |-> locals.j,
                         numerator |-> numerator]
           /\ Finish(rouge_w_score(numerator, args.summary_sentence,
                                   args.reference_sentence, args.weight, args.alpha))
    /\ UNCHANGED <<call, args, ngrams_counted, dp_cells, credited, visited>>

\* The body of rouge_w_summary_level is "pass": it returns None.
RougeWSummaryLevel ==
    /\ pc = "rouge_w_summary_level"
    /\ Finish(None)
    /\ UNCHANGED <<call, args, locals, ngrams_counted, dp_cells, credited, visited>>

---------------------------------------------------------------------------

Next ==
    \/ RougeNSentenceLevel
    \/ RougeNSummaryLevel
    \/ F1Measure
    \/ RougeLSentenceLevel
    \/ LcsElementsTable
    \/ LcsElementsBacktrace
    \/ LcsElementsReturn
    \/ RougeLSummaryLevel
    \/ LSummaryReference
    \/ LSummaryWord
    \/ LSummaryReturn
    \/ RougeWSentenceLevel
    \/ WeightedLcsCell
    \/ RougeWSentenceScore
    \/ RougeWSummaryLevel

Spec == Init /\ [][Next]_vars

---------------------------------------------------------------------------
(* Vocabulary of the properties.                                           *)

PublicScorers ==
    {"rouge_n_sentence_level", "rouge_l_sentence_level", "rouge_w_sentence_level",
     "rouge_n_summary_level", "rouge_l_summary_level", "rouge_w_summary_level"}

WScorers == {"rouge_w_sentence_level", "rouge_w_summary_level"}

NLScorers ==
    {"rouge_n_sentence_level", "rouge_l_sentence_level",
     "rouge_n_summary_level", "rouge_l_summary_level"}

SummaryLevel == {"rouge_n_summary_level", "rouge_l_summary_level", "rouge_w_summary_level"}

Finished == pc \in {"returned", "raised"}

InUnit(v) == IsRat(v) /\ Leq(Zero, v) /\ Leq(v, One)

AlphaOutOfRange == call.args.alpha # None /\ ~InUnit(call.args.alpha)

WeightTooSmall == call.fn \in WScorers /\ call.args.weight <= 1

AlphaMessage == "alpha must be between [0, 1]"

WeightMessage == "weight must be > 1.0"

\* The two token sequences the call compares (flattened for a summary-level call).
SummaryTokens ==
    IF call.fn \in SummaryLevel THEN _flatten_sentences(call.args.summary_sentences)
    ELSE call.args.summary_sentence

ReferenceTokens ==
    IF call.fn \in SummaryLevel THEN _flatten_sentences(call.args.reference_sentences)
    ELSE call.args.reference_sentence

Count(words, t) == Cardinality({i \in DOMAIN words : words[i] = t})

\* The cells the nested loops visit before cell <<i, j>>, with m + 1 columns.
CellsBefore(i, j, m) == {c \in (0..i) \X (0..m) : c[1] < i \/ c[2] < j}

MatchCell(x, y, c) == c[1] > 0 /\ c[2] > 0 /\ x[c[1]] = y[c[2]]

---------------------------------------------------------------------------
(* C1.  Every public scorer ends in the InvalidArgument error (ValueError) *)
(* and never returns a value when alpha is outside [0, 1], and both        *)
(* ROUGE-W scorers do the same when the weight power is <= 1.0, whatever   *)
(* the token input.                                                        *)
C1_InvalidParameterRaises ==
    (call.fn \in PublicScorers /\ Finished /\ (AlphaOutOfRange \/ WeightTooSmall))
        => (pc = "raised" /\ result.exc = "ValueError")

---------------------------------------------------------------------------
(* C2, as claimed.  An invalid parameter is rejected eagerly: the error is *)
(* raised before any n-gram is counted and before any cell of an LCS or    *)
(* weighted-LCS table is computed.                                         *)
C2_RejectedBeforeAnyWork ==
    pc = "raised" => (ngrams_counted = 0 /\ dp_cells = 0)

\* The DP cells a finished computation of the match count has filled in.
AllCells ==
    CASE call.fn = "rouge_l_sentence_level" ->
            TableCells(call.args.summary_sentence, call.args.reference_sentence)
      [] call.fn = "rouge_w_sentence_level" ->
            TableCells(call.args.summary_sentence, call.args.reference_sentence)
      [] call.fn = "rouge_l_summary_level" ->
            SumOver([p \in (DOMAIN call.args.summary_sentences)
                           \X (DOMAIN call.args.reference_sentences) |->
                         TableCells(call.args.summary_sentences[p[1]],
                                    call.args.reference_sentences[p[2]])],
                    (DOMAIN call.args.summary_sentences) \X (DOMAIN call.args.reference_sentences))
      [] OTHER -> 0

\* The n-grams a finished computation of the match count has tallied.
AllNgrams ==
    CASE call.fn \in {"rouge_n_sentence_level", "rouge_n_summary_level"} ->
            Max(Len(SummaryTokens) - call.args.n + 1, 0)
                + Max(Len(ReferenceTokens) - call.args.n + 1, 0)
      [] call.fn = "rouge_l_summary_level" -> Len(SummaryTokens) + Len(ReferenceTokens)
      [] OTHER -> 0

(* C2, amended.  Whenever a scorer raises, the error is a ValueError       *)
(* raised lazily.  For alpha it is raised by the final F-measure step,     *)
(* after every n-gram has been counted and every DP cell computed (and     *)
(* only when the weight power is valid).  For the weight power it is       *)
(* raised by _weight_fn: inside the loop of the weighted-LCS table, at the *)
(* first cell whose tokens match, after all cells before it have been      *)
(* computed; or, when no cell matches, after the whole table, in the       *)
(* normalisation of the recall.                                            *)
C2_RejectedLazily ==
    pc = "raised" =>
        /\ result.exc = "ValueError"
        /\ result.msg \in {AlphaMessage, WeightMessage}
        /\ result.msg = AlphaMessage =>
              /\ AlphaOutOfRange
              /\ ~WeightTooSmall
              /\ ngrams_counted = AllNgrams
              /\ dp_cells = AllCells
              /\ call.fn \in NLScorers => "numerator" \in DOMAIN args
              /\ call.fn = "rouge_w_sentence_level" => "numerator" \in DOMAIN locals
        /\ result.msg = WeightMessage =>
              LET x == call.args.summary_sentence
                  y == call.args.reference_sentence
                  before == CellsBefore(locals.i, locals.j, Len(y))
              IN  /\ call.fn = "rouge_w_sentence_level"
                  /\ WeightTooSmall
                  /\ dp_cells = Cardinality(before)
                  /\ \A c \in before : ~MatchCell(x, y, c)
                  /\ \/ locals.i <= Len(x) /\ MatchCell(x, y, <<locals.i, locals.j>>)
                     \/ locals.i = Len(x) + 1 /\ locals.j = 0 /\ dp_cells = AllCells

\* The weight power is rejected inside the DP loop, some cells already computed.
C2_Witness ==
    /\ pc = "raised"
    /\ result.msg = WeightMessage
    /\ locals.i <= Len(call.args.summary_sentence)
    /\ dp_cells > 2

---------------------------------------------------------------------------
(* C3.  In rouge_l_summary_level, after any prefix of the processing, for  *)
(* every token t the credits given to t are at most min(count of t in the  *)
(* flattened summary, count of t in the flattened reference); the          *)
(* remaining counts of t in both unigram Counters are never negative and   *)
(* are decremented together, once per credit; total_lcs_words is the       *)
(* number of credits.                                                      *)
C3_CreditsWithinMultisets ==
    (call.fn = "rouge_l_summary_level" /\ pc # "rouge_l_summary_level") =>
        /\ \A t \in Range(Vocabulary) :
              LET in_summary == Count(SummaryTokens, t)
                  in_reference == Count(ReferenceTokens, t)
              IN  /\ credited[t] <= Min(in_summary, in_reference)
                  /\ <<t>> \in DOMAIN locals.summary_unigrams =>
                        /\ locals.summary_unigrams[<<t>>] >= 0
                        /\ locals.summary_unigrams[<<t>>] = in_summary - credited[t]
                  /\ <<t>> \in DOMAIN locals.reference_unigrams =>
                        /\ locals.reference_unigrams[<<t>>] >= 0
                        /\ locals.reference_unigrams[<<t>>] = in_reference - credited[t]
                  /\ (<<t>> \notin DOMAIN locals.summary_unigrams
                        \/ <<t>> \notin DOMAIN locals.reference_unigrams) => credited[t] = 0
        /\ locals.total_lcs_words = SumOver(credited, Range(Vocabulary))

\* A word of the union is about to be refused: its token has been credited
\* as often as the summary holds it.
C3_Witness ==
    /\ call.fn = "rouge_l_summary_level"
    /\ pc = "rouge_l_summary_level:for word"
    /\ \E word \in locals.unvisited :
         LET t == call.args.reference_sentences[locals.reference][word + 1]
         IN  /\ credited[t] > 0
             /\ locals.summary_unigrams[<<t>>] = 0
             /\ locals.reference_unigrams[<<t>>] > 0

---------------------------------------------------------------------------
(* C4.  For the ROUGE-N and ROUGE-L scorers, sentence and summary level,   *)
(* every n >= 1 and every alpha in [0, 1]: the match count never exceeds   *)
(* the recall denominator nor the precision denominator, and the returned  *)
(* recall, precision and f1 each lie in [0, 1].                            *)
C4_ScoresInUnitInterval ==
    call.fn \in NLScorers =>
        /\ "numerator" \in DOMAIN args =>
              /\ 0 <= args.numerator
              /\ args.numerator <= args.r_denominator
              /\ args.numerator <= args.p_denominator
        /\ pc = "returned" =>
              /\ InUnit(result.recall)
              /\ InUnit(result.precision)
              /\ InUnit(result.f1)

\* A ROUGE-L summary-level score strictly inside the interval.
C4_Witness ==
    /\ call.fn = "rouge_l_summary_level"
    /\ pc = "returned"
    /\ result.f1 \notin {Zero, One}
    /\ result.recall # result.precision
    /\ call.args.alpha \notin {None, Half}

---------------------------------------------------------------------------
\* The inputs the zero-safe division is there for.
IrregularInput ==
    \/ SummaryTokens = <<>>
    \/ ReferenceTokens = <<>>
    \/ /\ call.fn \in {"rouge_n_sentence_level", "rouge_n_summary_level"}
       /\ (call.args.n > Len(SummaryTokens) \/ call.args.n > Len(ReferenceTokens))

RecallDenominator ==
    IF call.fn = "rouge_w_sentence_level" THEN Len(ReferenceTokens) ELSE args.r_denominator

PrecisionDenominator ==
    IF call.fn = "rouge_w_sentence_level" THEN Len(SummaryTokens) ELSE args.p_denominator

(* C5.  With a valid alpha and weight power, the ROUGE-N and ROUGE-L       *)
(* scorers and rouge_w_sentence_level never raise; when the summary or the *)
(* reference is empty, or n exceeds the length of a sequence in ROUGE-N,   *)
(* they return f1 = 0.0; and recall (precision) is 0.0 whenever its own    *)
(* denominator is zero.                                                    *)
C5_IrregularInputScoresZero ==
    (/\ call.fn \in NLScorers \cup {"rouge_w_sentence_level"}
     /\ ~AlphaOutOfRange
     /\ ~WeightTooSmall) =>
        /\ pc # "raised"
        /\ pc = "returned" =>
              /\ IrregularInput => result.f1 = Zero
              /\ RecallDenominator = 0 => result.recall = Zero
              /\ PrecisionDenominator = 0 => result.precision = Zero

\* ROUGE-N returns although n exceeds the length of the reference only.
C5_Witness ==
    /\ call.fn \in {"rouge_n_sentence_level", "rouge_n_summary_level"}
    /\ pc = "returned"
    /\ call.args.n > Len(ReferenceTokens)
    /\ call.args.n <= Len(SummaryTokens)
    /\ args.r_denominator = 0
    /\ args.p_denominator > 0

---------------------------------------------------------------------------
(* C6.  In _lcs_elements, the cells <<i, j>> where the tokens differ and   *)
(* the two candidates are equal, len_table[i-1, j] = len_table[i, j-1].    *)
TieCells(x, y) ==
    LET L == _compute_lcs_table(x, y).len_table
    IN  {c \in (1..Len(x)) \X (1..Len(y)) :
            /\ x[c[1]] # y[c[2]]
            /\ L[<<c[1] - 1, c[2]>>] = L[<<c[1], c[2] - 1>>]}

AtTieCell ==
    /\ locals.i # 0
    /\ locals.j # 0
    /\ <<locals.i, locals.j>> \in TieCells(args.x, args.y)

BacktraceNext ==
    BacktraceStep(locals.table, [i |-> locals.i, j |-> locals.j, elements |-> locals.elements])

(* C6, as claimed.  At every tie the recorded direction is 'up', and the   *)
(* backtrace decrements i, not j.                                          *)
C6_TiesGoUp ==
    pc = "_lcs_elements:while" =>
        /\ \A c \in TieCells(args.x, args.y) : locals.table[c] = "u"
        /\ AtTieCell => (BacktraceNext.i = locals.i - 1 /\ BacktraceNext.j = locals.j)

(* C6, amended.  At every tie the recorded direction is 'left' ('up' is    *)
(* recorded only when len_table[i-1, j] > len_table[i, j-1]), and the      *)
(* backtrace decrements j, not i.                                          *)
C6_TiesGoLeft ==
    pc = "_lcs_elements:while" =>
        /\ \A c \in TieCells(args.x, args.y) : locals.table[c] = "l"
        /\ AtTieCell => (BacktraceNext.i = locals.i /\ BacktraceNext.j = locals.j - 1)

\* The backtrace stands on a tie, and a match lies up and to the left of it.
C6_Witness ==
    /\ pc = "_lcs_elements:while"
    /\ AtTieCell
    /\ _compute_lcs_table(args.x, args.y).len_table[<<locals.i - 1, locals.j>>] > 0

---------------------------------------------------------------------------
(* C7.  The call of example.py: rouge_l_sentence_level with summary        *)
(* "the gunman police killed" and reference "the police killed the         *)
(* gunman".                                                                *)
ExampleCall ==
    /\ call.fn = "rouge_l_sentence_level"
    /\ call.args.summary_sentence = summary_sentence
    /\ call.args.reference_sentence = reference_sentence

(* C7, as claimed.  It uses an LCS length of 2 and returns recall 2/5 and  *)
(* precision 2/4.                                                          *)
C7_ExampleLcsIsTwo ==
    (ExampleCall /\ pc = "returned") =>
        /\ locals.lcs_length = 2
        /\ result.recall = Rat(2, 5)
        /\ result.precision = Rat(2, 4)

(* C7, amended.  It uses an LCS length of 3 ("the police killed") and      *)
(* returns recall 3/5 = 0.6 and precision 3/4 = 0.75.                      *)
C7_ExampleLcsIsThree ==
    (ExampleCall /\ "lcs_length" \in DOMAIN locals) =>
        /\ locals.lcs_length = 3
        /\ pc = "returned" =>
              /\ result.recall = Rat(3, 5)
              /\ result.precision = Rat(3, 4)

C7_Witness ==
    /\ ExampleCall
    /\ pc = "returned"
    /\ call.args.alpha = None

---------------------------------------------------------------------------
\* The valid values of alpha among those drawn.
UnitAlphas == {a \in Alphas \ {None} : InUnit(a)}

(* C8.  _compute_f1_measure biases toward precision as alpha goes to 0 and *)
(* toward recall as alpha goes to 1: for nonzero recall and precision the  *)
(* value at alpha = 0 is the precision, the value at alpha = 1 is the      *)
(* recall, and the value moves monotonically from the precision to the     *)
(* recall as alpha grows.                                                  *)
C8_AlphaWeighsRecall ==
    (call.fn \in NLScorers /\ pc = "returned"
        /\ result.recall # Zero /\ result.precision # Zero) =>
        LET F(a) == _compute_f1_measure(result.recall, result.precision, a)
        IN  /\ call.args.alpha = Zero => result.f1 = result.precision
            /\ call.args.alpha = One => result.f1 = result.recall
            /\ \A a1, a2 \in UnitAlphas :
                  Leq(a1, a2) =>
                      /\ Leq(result.precision, result.recall) => Leq(F(a1), F(a2))
                      /\ Leq(result.recall, result.precision) => Leq(F(a2), F(a1))

---------------------------------------------------------------------------
(* C9.  For a non-empty sequence x of length k, repeated tokens or not,    *)
(* and a valid weight power p, the weighted LCS of x with itself is k^p:   *)
(* every diagonal cell <<r, r>> holds a run of length r and the weighted   *)
(* length r^p; and rouge_w_sentence_level(x, x) returns recall = 1 and     *)
(* precision = 1.                                                          *)
C9_SelfMatchIsPerfect ==
    (/\ call.fn = "rouge_w_sentence_level"
     /\ call.args.summary_sentence = call.args.reference_sentence
     /\ call.args.summary_sentence # <<>>
     /\ call.args.weight > 1) =>
        LET k == Len(call.args.summary_sentence)
            p == call.args.weight
        IN  /\ pc = "_lcs_length_with_weight" =>
                  \A r \in 1..k :
                      <<r, r>> \in DOMAIN locals.weighted_len =>
                          /\ locals.consecutive_match[<<r, r>>] = r
                          /\ locals.weighted_len[<<r, r>>] = Num(Pow(r, p))
            /\ "numerator" \in DOMAIN locals => locals.numerator = Num(Pow(k, p))
            /\ pc = "returned" =>
                  /\ result.recall = One
                  /\ result.precision = One

\* A sequence with a repeated token, scored against itself.
C9_Witness ==
    /\ call.fn = "rouge_w_sentence_level"
    /\ pc = "returned"
    /\ call.args.summary_sentence = call.args.reference_sentence
    /\ Len(call.args.summary_sentence) >= 2
    /\ call.args.summary_sentence[1] = call.args.summary_sentence[2]
    /\ result.f1 = One

---------------------------------------------------------------------------
\* Is s a subsequence of y: s is matched greedily from the left.
RECURSIVE IsSubsequence(_, _)
IsSubsequence(s, y) ==
    IF s = <<>> THEN TRUE
    ELSE IF y = <<>> THEN FALSE
    ELSE IF Head(s) = Head(y) THEN IsSubsequence(Tail(s), Tail(y))
    ELSE IsSubsequence(s, Tail(y))

\* The tokens of x at the positions P, in order.
RECURSIVE Pick(_, _, _)
Pick(x, P, k) ==
    IF k > Len(x) THEN <<>>
    ELSE (IF k \in P THEN <<x[k]>> ELSE <<>>) \o Pick(x, P, k + 1)

\* The greatest length of a common subsequence, by enumeration.
LongestCommon(x, y) ==
    LET common == {P \in SUBSET (1..Len(x)) : IsSubsequence(Pick(x, P, 1), y)}
    IN  CHOOSE n \in 0..Len(x) :
            /\ \E P \in common : Cardinality(P) = n
            /\ \A P \in common : Cardinality(P) <= n

IsAlignment(elements, x, y) ==
    /\ \A e \in elements :
          /\ 0 <= e[1] /\ e[1] < Len(x)
          /\ 0 <= e[2] /\ e[2] < Len(y)
          /\ x[e[1] + 1] = y[e[2] + 1]
    /\ \A e, f \in elements :
          e # f => ((e[1] < f[1] /\ e[2] < f[2]) \/ (f[1] < e[1] /\ f[2] < e[2]))

(* C10.  The set _lcs_elements(x, y) returns is one longest common         *)
(* subsequence alignment: every pair <<i, j>> has 0 <= i < |x|,            *)
(* 0 <= j < |y| and x[i] = y[j]; the pairs form a chain strictly           *)
(* increasing in both coordinates; the number of pairs equals              *)
(* _lcs_length(x, y), the greatest length of a common subsequence.  The    *)
(* while loop terminates: every iteration finds a trace entry and          *)
(* decreases i + j, and neither index becomes negative.                    *)
C10_OneLongestAlignment ==
    call.fn = "_lcs_elements" =>
        /\ pc = "_lcs_elements:while" =>
              /\ IsAlignment(locals.elements, args.x, args.y)
              /\ \A e \in locals.elements : locals.i <= e[1] /\ locals.j <= e[2]
              /\ (locals.i # 0 /\ locals.j # 0) =>
                    /\ <<locals.i, locals.j>> \in DOMAIN locals.table
                    /\ BacktraceNext.i + BacktraceNext.j < locals.i + locals.j
                    /\ BacktraceNext.i >= 0
                    /\ BacktraceNext.j >= 0
        /\ pc = "returned" =>
              /\ IsAlignment(result, args.x, args.y)
              /\ Cardinality(result) = _lcs_length(args.x, args.y)
              /\ Cardinality(result) = LongestCommon(args.x, args.y)
              /\ result = _lcs_elements(args.x, args.y)
        /\ pc # "raised"

\* An alignment is returned where a longest one is not unique: the trace
\* met a tie, and a matching pair of positions was left out.
C10_Witness ==
    /\ call.fn = "_lcs_elements"
    /\ pc = "returned"
    /\ Cardinality(result) = LongestCommon(args.x, args.y)
    /\ result # {}
    /\ TieCells(args.x, args.y) # {}
    /\ \E i \in 1..Len(args.x), j \in 1..Len(args.y) :
          args.x[i] = args.y[j] /\ <<i - 1, j - 1>> \notin result

---------------------------------------------------------------------------
(* C11.  rouge_l_summary_level with its inner loop run in ascending index  *)
(* order, as a function of the arguments.                                  *)

\* The inner loop over the indices words of one union, least index first,
\* from the counters and the count st reached before it.
RECURSIVE WordsAscending(_, _, _)
WordsAscending(reference, words, st) ==
    IF words = {} THEN st
    ELSE LET word == CHOOSE w \in words : \A v \in words : w <= v
             unigram == <<reference[word + 1]>>
             hit == Creditable(st.summary_unigrams, st.reference_unigrams, unigram)
         IN  WordsAscending(reference, words \ {word},
                 [summary_unigrams |->
                      IF hit THEN [st.summary_unigrams EXCEPT ![unigram] = @ - 1]
                      ELSE st.summary_unigrams,
                  reference_unigrams |->
                      IF hit THEN [st.reference_unigrams EXCEPT ![unigram] = @ - 1]
                      ELSE st.reference_unigrams,
                  total_lcs_words |->
                      IF hit THEN st.total_lcs_words + 1 ELSE st.total_lcs_words])

\* The outer loop from the r-th reference sentence on.
RECURSIVE ReferencesAscending(_, _, _, _)
ReferencesAscending(summary_sentences, reference_sentences, r, st) ==
    IF r > Len(reference_sentences) THEN st
    ELSE ReferencesAscending(summary_sentences, reference_sentences, r + 1,
             WordsAscending(reference_sentences[r],
                            _make_lcs_union(summary_sentences, reference_sentences[r]),
                            st))

\* total_lcs_words when every union is visited in ascending index order.
AscendingLcsWords(summary_sentences, reference_sentences) ==
    ReferencesAscending(summary_sentences, reference_sentences, 1,
        [summary_unigrams |-> _flatten_and_count_ngrams(summary_sentences, 1),
         reference_unigrams |-> _flatten_and_count_ngrams(reference_sentences, 1),
         total_lcs_words |-> 0]).total_lcs_words

\* Two words of one union were visited with the greater index first.
VisitedOutOfOrder ==
    \E a, b \in DOMAIN visited :
        /\ a < b
        /\ visited[a][1] = visited[b][1]
        /\ visited[a][2] > visited[b][2]

(* C11.  The result of rouge_l_summary_level does not depend on the order  *)
(* in which the indices of each union are visited.  The code iterates a    *)
(* set, so any index not yet visited may come next; for every visiting     *)
(* order of every union, the LCS word count handed to _f1_measure, and     *)
(* hence the returned triple or the raised error, is the same as when the  *)
(* indices are processed in ascending index order.                         *)
C11_VisitingOrderIsIrrelevant ==
    call.fn = "rouge_l_summary_level" =>
        LET ascending == AscendingLcsWords(call.args.summary_sentences,
                                           call.args.reference_sentences)
        IN  /\ (/\ pc = "rouge_l_summary_level:for reference"
                /\ locals.reference > Len(args.reference_sentences))
                    => locals.total_lcs_words = ascending
            /\ pc = "_f1_measure" => args.numerator = ascending
            /\ Finished =>
                  result = _f1_measure(ascending,
                                       TotalLen(call.args.reference_sentences),
                                       TotalLen(call.args.summary_sentences),
                                       call.args.alpha)

\* A triple is returned after a union was visited out of ascending order,
\* with a word credited and a word refused on the way.
C11_Witness ==
    /\ call.fn = "rouge_l_summary_level"
    /\ pc = "returned"
    /\ VisitedOutOfOrder
    /\ locals.total_lcs_words > 0
    /\ Len(visited) > locals.total_lcs_words

====
